---- MODULE Spec2Model ----
(***************************************************************************)
(* Model of the trivy scanner adapter                                      *)
(* (kalm_benchmark/evaluation/scanner/trivy.py): the CHECK_MAPPING table,  *)
(* Scanner.parse_results, Scanner.get_checked_path and Scanner.get_version.*)
(* Python str values are TLA+ strings; a dict is a function whose DOMAIN   *)
(* is the set of keys that are present.                                    *)
(***************************************************************************)
EXTENDS Integers, Sequences, FiniteSets, TLC

VARIABLES
    mapping,        \* the module-level CHECK_MAPPING dict
    op,             \* which method this call is
    results,        \* argument of parse_results
    check_id_arg,   \* argument of get_checked_path
    raw_version,    \* text returned by super().get_version()
    pc,             \* "call", "returned" or "raised"
    check_results,  \* the list parse_results builds and returns
    value,          \* str returned by get_checked_path / get_version
    exc,            \* the exception that propagated, NoExc if none
    log             \* records emitted through loguru's logger

vars == <<mapping, op, results, check_id_arg, raw_version, pc,
          check_results, value, exc, log>>

(* ---------------------------- bounds ----------------------------------- *)
MaxFiles == 2
MaxFindings == 3
MaxVersionLen == 4

(* ------------------------ Python value shapes -------------------------- *)
\* the value of a table entry's second component, tagged with its Python type
List(v) == [type |-> "list", value |-> v]
Str(v) == [type |-> "str", value |-> v]
NoneVal == [type |-> "NoneType"]

\* Python's None where a str is otherwise stored (check_id of a record);
\* no match of check_id_pattern equals this text, since a match contains "-"
None == "None"

NoExc == "NoExc"
KeyError(key) == "KeyError('" \o key \o "')"
ValueError == "ValueError"

\* CheckStatus members used by the adapter
Alert == "Alert"
Pass == "Pass"

NAME == "trivy"

(* ---------------------------- CHECK_MAPPING ---------------------------- *)
CHECK_MAPPING ==
    "KSV001" :> <<"Workload", List(<<".spec.containers[].securityContext.allowPrivilegeEscalation">>)>> @@
    "KSV002" :> <<"Workload", List(<<".metadata.annotations.container.apparmor.security.beta.kubernetes.io.metadata.annotations[container.apparmor.security.beta.kubernetes.io]">>)>> @@
    "KSV003" :> <<"Workload", List(<<".spec.containers[].securityContext.capabilities.drop">>)>> @@
    "KSV004" :> <<"Workload", List(<<".spec.containers[].securityContext.capabilities.drop">>)>> @@
    "KSV005" :> <<"Workload", List(<<".spec.containers[].securityContext.capabilities.add">>)>> @@
    "KSV006" :> <<"Workload", List(<<".spec.volumes[].hostPath.path">>)>> @@
    "KSV007" :> <<"Workload", List(<<".spec.hostAliases">>)>> @@
    "KSV008" :> <<"Workload", List(<<".spec.hostIPC">>)>> @@
    "KSV009" :> <<"Workload", List(<<".spec.hostNetwork">>)>> @@
    "KSV010" :> <<"Workload", List(<<".spec.hostPID">>)>> @@
    "KSV011" :> <<"Reliability", List(<<".spec.containers[].resources.limits.cpu">>)>> @@
    "KSV012" :> <<"Workload", List(<<
            ".spec.securityContext.runAsNonRoot",
            ".spec.containers[].securityContext.runAsNonRoot">>)>> @@
    "KSV013" :> <<"Workload", List(<<".spec.containers[].image">>)>> @@
    "KSV014" :> <<"Workload", List(<<".spec.containers[].securityContext.readOnlyRootFilesystem">>)>> @@
    "KSV015" :> <<"Reliability", List(<<".spec.containers[].resources.requests.cpu">>)>> @@
    "KSV016" :> <<"Reliability", List(<<".spec.containers[].resources.requests.memory">>)>> @@
    "KSV017" :> <<"Workload", List(<<".spec.containers[].securityContext.privileged">>)>> @@
    "KSV018" :> <<"Reliability", List(<<".spec.containers[].resources.limits.memory">>)>> @@
    "KSV020" :> <<"Workload", List(<<".spec.containers[].securityContext.runAsUser">>)>> @@
    "KSV021" :> <<"Workload", List(<<".spec.containers[].securityContext.runAsGroup">>)>> @@
    "KSV022" :> <<"Workload", List(<<".spec.containers[].securityContext.capabilities.add">>)>> @@
    "KSV023" :> <<"Workload", List(<<".spec.volumes[].hostPath">>)>> @@
    "KSV024" :> <<"Workload", List(<<
            ".spec.containers[].ports[].hostPort",
            ".spec.initContainers[].ports[].hostPort">>)>> @@
    "KSV025" :> <<"Workload", List(<<
            ".spec.securityContext.seLinuxOptions",
            ".spec.containers[].securityContext.seLinuxOptions">>)>> @@
    "KSV026" :> <<"Workload", List(<<".spec.securityContext.sysctls[]">>)>> @@
    "KSV027" :> <<"Workload", List(<<
            ".spec.containers[].securityContext.procMount",
            ".spec.initContainers[].securityContext.procMount">>)>> @@
    "KSV028" :> <<"Workload", List(<<".spec.volumes[]">>)>> @@
    "KSV116" :> <<"Workload", List(<<
            ".spec.securityContext.fsGRoup",
            ".spec.securityContext.supplementalGroups",
            ".spec.securityContext.runAsGroup",
            ".spec.containers[].securityContext.runAsGroup">>)>> @@
    "KSV030" :> <<"Workload", List(<<
            ".spec.securityContext.seccompProfile.type",
            ".spec.containers[].securityContext.seccompProfile.type",
            ".metadata.annotations[seccomp.security.alpha.kubernetes.io/pod">>)>> @@
    "KSV032" :> <<"Workload", List(<<
            ".spec.containers[].image",
            ".spec.containers[].name">>)>> @@
    "KSV033" :> <<"Workload", List(<<
            ".spec.containers[].image",
            ".spec.containers[].name">>)>> @@
    "KSV034" :> <<"Workload", List(<<".spec.containers[].image">>)>> @@
    "KSV035" :> <<"Workload", List(<<
            ".spec.containers[].image",
            ".spec.containers[].name">>)>> @@
    "KSV036" :> <<"Workload", List(<<
            ".spec.automountServiceAccountToken",
            ".automountServiceAccountToken",
            ".spec.containers[].volumeMounts[].mountPath">>)>> @@
    "KSV037" :> <<"Workload", List(<<".metadata.namespace">>)>> @@
    "KSV038" :> <<"Network", List(<<
            "NetworkPolicy.spec.podSelector",
            ".spec.podSelector",
            "NetworkPolicy.spec.podSelector.matchLabels",
            "NetworkPolicy.ingress[].from[].namespaceSelector",
            "NetworkPolicy.ingress[].from[].podSelector",
            "NetworkPolicy.egress[].from[].namespaceSelector",
            "NetworkPolicy.egress[].from[].podSelector",
            "NetworkPolicy.spec.policyTypes[]">>)>> @@
    "KSV039" :> <<"Reliability", List(<<
            "LimitRange.metadata.namespace",
            "LimitRange.spec.limits[].type",
            "LimitRange.spec.limits[].max",
            "LimitRange.spec.limits[].min",
            "LimitRange.spec.limits[].default",
            "LimitRange.spec.limits[].defaultRequest">>)>> @@
    "KSV040" :> <<"Reliability", List(<<
            "ResourceQuota.metadata.namespace",
            "ResourceQuota.spec.hard.requests.cpu",
            "ResourceQuota.spec.hard.requests.memory",
            "ResourceQuota.spec.hard.limits.cpu",
            "ResourceQuota.spec.hard.limits.memory",
            "ResourceQuota.spec.hard.limits[].defaultRequest">>)>> @@
    "KSV041" :> <<"IAM", List(<<
            "ClusterRole.rules[].resources",
            "ClusterRole.rules[].verbs",
            "Role.rules[].resources",
            "Role.rules[].verbs">>)>> @@
    "KSV042" :> <<"IAM", List(<<
            "ClusterRole.rules[].apiGroups",
            "ClusterRole.rules[].resources",
            "ClusterRole.rules[].verbs",
            "Role.rules[].apiGroups",
            "Role.rules[].resources",
            "Role.rules[].verbs">>)>> @@
    "KSV043" :> <<"IAM", List(<<
            "ClusterRole.rules[].apiGroups",
            "ClusterRole.rules[].resources",
            "ClusterRole.rules[].verbs",
            "Role.rules[].apiGroups",
            "Role.rules[].resources",
            "Role.rules[].verbs">>)>> @@
    "KSV044" :> <<"IAM", List(<<
            "ClusterRole.rules[].resources",
            "ClusterRole.rules[].verbs",
            "Role.rules[].resources",
            "Role.rules[].verbs">>)>> @@
    "KSV045" :> <<"IAM", List(<<
            "ClusterRole.rules[].resources",
            "ClusterRole.rules[].verbs",
            "Role.rules[].resources",
            "Role.rules[].verbs">>)>> @@
    "KSV046" :> <<"IAM", List(<<
            "ClusterRole.rules[].resources",
            "ClusterRole.rules[].verbs",
            "Role.rules[].resources",
            "Role.rules[].verbs">>)>> @@
    "KSV047" :> <<"IAM", List(<<
            "ClusterRole.rules[].resources",
            "ClusterRole.rules[].verbs",
            "Role.rules[].resources",
            "Role.rules[].verbs">>)>> @@
    "KSV048" :> <<"IAM", List(<<
            "ClusterRole.rules[].resources",
            "ClusterRole.rules[].verbs",
            "Role.rules[].resources",
            "Role.rules[].verbs">>)>> @@
    "KSV049" :> <<"IAM", List(<<
            "ClusterRole.rules[].resources",
            "ClusterRole.rules[].verbs",
            "Role.rules[].resources",
            "Role.rules[].verbs">>)>> @@
    "KSV050" :> <<"IAM", List(<<
            "ClusterRole.rules[].resources",
            "ClusterRole.rules[].verbs",
            "Role.rules[].resources",
            "Role.rules[].verbs">>)>> @@
    "KSV051" :> <<"IAM", List(<<
            "ClusterRole.rules[].apiGroups",
            "ClusterRole.rules[].resources",
            "ClusterRole.rules[].verbs",
            "ClusterRole.rules[].resourceNames",
            "Role.rules[].apiGroups",
            "Role.rules[].resources",
            "Role.rules[].verbs",
            "Role.rules[].resourceNames">>)>> @@
    "KSV052" :> <<"IAM", List(<<
            "ClusterRole.rules[].apiGroups",
            "ClusterRole.rules[].resources",
            "ClusterRole.rules[].verbs",
            "ClusterRole.rules[].resourceNames",
            "Role.rules[].apiGroups",
            "Role.rules[].resources",
            "Role.rules[].verbs",
            "Role.rules[].resourceNames">>)>> @@
    "KSV053" :> <<"IAM", List(<<
            "ClusterRole.rules[].apiGroups",
            "ClusterRole.rules[].resources",
            "ClusterRole.rules[].verbs",
            "Role.rules[].apiGroups",
            "Role.rules[].resources",
            "Role.rules[].verbs">>)>> @@
    "KSV054" :> <<"IAM", List(<<
            "ClusterRole.rules[].apiGroups",
            "ClusterRole.rules[].resources",
            "ClusterRole.rules[].verbs",
            "Role.rules[].apiGroups",
            "Role.rules[].resources",
            "Role.rules[].verbs">>)>> @@
    "KSV055" :> <<"IAM", List(<<
            "ClusterRole.rules[].apiGroups",
            "ClusterRole.rules[].resources",
            "ClusterRole.rules[].verbs",
            "Role.rules[].apiGroups",
            "Role.rules[].resources",
            "Role.rules[].verbs">>)>> @@
    "KSV056" :> <<"IAM", List(<<
            "ClusterRole.rules[].resources",
            "ClusterRole.rules[].verbs",
            "Role.rules[].resources",
            "Role.rules[].verbs">>)>> @@
    "KSV102" :> <<"Workload", List(<<
            ".metadata.name",
            ".spec.containers[].image">>)>> @@
    "KSV104" :> <<"Workload", List(<<
            ".spec.securityContext.seccompProfile.type",
            ".spec.containers[].securityContext.seccompProfile.type",
            ".metadata.annotations[seccomp.security.alpha.kubernetes.io/pod">>)>> @@
    "KSV105" :> <<"AdmissionControl", List(<<
            ".spec.securityContext.runAsUser",
            ".spec.containers[].securityContext.runAsUser">>)>> @@
    "KSV106" :> <<"AdmissionControl", List(<<
            ".spec.containers[].securityContext.capabilities.drop",
            ".spec.containers[].securityContext.capabilities.add">>)>> @@
    "KSV111" :> <<"IAM", List(<<
            "ClusterRoleBinding.roleRef.name",
            "RoleBinding.roleRef.name">>)>> @@
    "KSV112" :> <<"IAM", List(<<
            "ClusterRole.rules[].apiGroups",
            "ClusterRole.rules[].resources",
            "ClusterRole.rules[].verbs",
            "Role.rules[].apiGroups",
            "Role.rules[].resources",
            "Role.rules[].verbs">>)>> @@
    "KSV113" :> <<"IAM", List(<<
            "ClusterRole.rules[].apiGroups",
            "ClusterRole.rules[].resources",
            "ClusterRole.rules[].verbs",
            "Role.rules[].apiGroups",
            "Role.rules[].resources",
            "Role.rules[].verbs">>)>> @@
    "KSV119" :> <<"Workload", List(<<".spec.containers[].securityContext.capabilities.add">>)>> @@
    "KSV120" :> <<"Workload", List(<<".spec.containers[].securityContext.capabilities.add">>)>> @@
    "KSV121" :> <<"Workload", List(<<".spec.volumes[].hostPath.path">>)>> @@
    "AVD-KSV-0109" :> <<"DataSecurity", List(<<"ConfigMap.data">>)>> @@
    "AVD-KSV-01010" :> <<"DataSecurity", List(<<"ConfigMap.data">>)>>

(* ----------------------------- str helpers ----------------------------- *)
CharAt(s, p) == SubSeq(s, p, p)

\* The pattern is a str pattern, so \d and \w follow Unicode.  A string of
\* this module holds characters up to U+00FF; the classes below are exact
\* on that range.

\* the characters \d matches (decimal digits, category Nd): up to U+00FF
\* these are the ASCII digits; superscripts and fractions are not decimal
Digits == {"0", "1", "2", "3", "4", "5", "6", "7", "8", "9"}

\* the alphabetic characters up to U+00FF
Letters ==
    {"a", "b", "c", "d", "e", "f", "g", "h", "i", "j", "k", "l", "m",
     "n", "o", "p", "q", "r", "s", "t", "u", "v", "w", "x", "y", "z",
     "A", "B", "C", "D", "E", "F", "G", "H", "I", "J", "K", "L", "M",
     "N", "O", "P", "Q", "R", "S", "T", "U", "V", "W", "X", "Y", "Z",
     "ª", "µ", "º",
     "À", "Á", "Â", "Ã", "Ä", "Å", "Æ", "Ç", "È", "É", "Ê", "Ë", "Ì",
     "Í", "Î", "Ï", "Ð", "Ñ", "Ò", "Ó", "Ô", "Õ", "Ö",
     "Ø", "Ù", "Ú", "Û", "Ü", "Ý", "Þ", "ß",
     "à", "á", "â", "ã", "ä", "å", "æ", "ç", "è", "é", "ê", "ë", "ì",
     "í", "î", "ï", "ð", "ñ", "ò", "ó", "ô", "õ", "ö",
     "ø", "ù", "ú", "û", "ü", "ý", "þ", "ÿ"}

\* the numeric characters up to U+00FF that are not decimal digits: \w
\* matches them, \d does not
OtherNumerics == {"²", "³", "¹", "¼", "½", "¾"}

\* the characters \w matches (alphanumeric or "_") up to U+00FF
WordChars == Letters \cup Digits \cup OtherNumerics \cup {"_"}

RECURSIVE find(_, _, _)
\* str.find(c, p): position >= p of the first character c of s, 0 if none
find(s, c, p) ==
    IF p > Len(s) THEN 0
    ELSE IF CharAt(s, p) = c THEN p
    ELSE find(s, c, p + 1)

RECURSIVE rfind(_, _, _)
\* str.rfind(c): position <= p of the last character c of s, 0 if none
rfind(s, c, p) ==
    IF p < 1 THEN 0
    ELSE IF CharAt(s, p) = c THEN p
    ELSE rfind(s, c, p - 1)

RECURSIVE split(_, _)
\* str.split(sep) for a one-character separator: every occurrence cuts
split(s, sep) ==
    LET p == find(s, sep, 1)
    IN  IF p = 0 THEN <<s>>
        ELSE <<SubSeq(s, 1, p - 1)>> \o split(SubSeq(s, p + 1, Len(s)), sep)

RECURSIVE join(_, _)
\* sep.join(xs)
join(sep, xs) ==
    IF Len(xs) = 0 THEN ""
    ELSE IF Len(xs) = 1 THEN xs[1]
    ELSE xs[1] \o sep \o join(sep, Tail(xs))

(* --------------------------- Path(...).stem ---------------------------- *)
RECURSIVE last_part(_)
\* the last component of a posix path that is neither empty nor "."
last_part(parts) ==
    IF Len(parts) = 0 THEN ""
    ELSE IF parts[Len(parts)] \in {"", "."}
         THEN last_part(SubSeq(parts, 1, Len(parts) - 1))
    ELSE parts[Len(parts)]

\* PurePath.name
path_name(target) == last_part(split(target, "/"))

\* PurePath.stem: the name without its last suffix
stem(target) ==
    LET name == path_name(target)
        p == rfind(name, ".", Len(name))
    IN  IF 1 < p /\ p < Len(name) THEN SubSeq(name, 1, p - 1) ELSE name

(* ------------------ check_id_pattern = ^(\w+(?:-\d+)+) ----------------- *)
RECURSIVE word_run_end(_, _)
\* position of the last character of the run of \w characters that starts
\* at p (p - 1 when the run is empty)
word_run_end(s, p) ==
    IF p <= Len(s) /\ CharAt(s, p) \in WordChars
    THEN word_run_end(s, p + 1) ELSE p - 1

RECURSIVE digit_run_end(_, _)
digit_run_end(s, p) ==
    IF p <= Len(s) /\ CharAt(s, p) \in Digits
    THEN digit_run_end(s, p + 1) ELSE p - 1

RECURSIVE groups_end(_, _)
\* greedy (?:-\d+)*: e is the last matched position so far
groups_end(s, e) ==
    IF e + 2 <= Len(s) /\ CharAt(s, e + 1) = "-" /\ CharAt(s, e + 2) \in Digits
    THEN groups_end(s, digit_run_end(s, e + 2)) ELSE e

\* the search of the pattern ^(\w+), which stops at the leading word run
check_id_pattern_search_word(obj_name) ==
    LET w == word_run_end(obj_name, 1)
    IN  IF w >= 1 THEN SubSeq(obj_name, 1, w) ELSE None

\* check_id_pattern.search(obj_name), then m.group(1) or None.  The pattern
\* is anchored at the start; \w+ cannot give back characters, because the
\* character after a shorter run is a word character and never "-".
check_id_pattern_search(obj_name) ==
    LET w == word_run_end(obj_name, 1)
        g == groups_end(obj_name, w)
    IN  IF w >= 1 /\ g > w THEN SubSeq(obj_name, 1, g) ELSE None

(* -------------------------- get_checked_path --------------------------- *)
\* a record emitted by logger.warning
warning(function, message) ==
    [level |-> "WARNING", function |-> function, message |-> message]

\* _, paths = CHECK_MAPPING.get(check_id, (None, None))
lookup_paths(id) ==
    IF id \in DOMAIN mapping THEN mapping[id][2] ELSE NoneVal

\* render_paths with "," as the delimiter
render_paths_comma(paths, id) ==
    IF paths.type = "str" THEN [value |-> paths.value, log |-> <<>>]
    ELSE IF paths.type = "list"
         THEN [value |-> join(",", paths.value), log |-> <<>>]
    ELSE IF paths.type = "NoneType"
         THEN [value |-> "",
               log |-> <<warning("get_checked_path",
                                 NAME \o " check '" \o id
                                      \o "' not found in the mapping")>>]
    ELSE [value |-> "", log |-> <<>>]

\* render_paths without the warning for an id that is not in the mapping
render_paths_silent(paths, id) ==
    IF paths.type = "str" THEN [value |-> paths.value, log |-> <<>>]
    ELSE IF paths.type = "list"
         THEN [value |-> join("|", paths.value), log |-> <<>>]
    ELSE [value |-> "", log |-> <<>>]

\* lines 393-401: the str returned for the looked-up paths and the records
\* logged on the way
render_paths(paths, id) ==
    IF paths.type = "str" THEN [value |-> paths.value, log |-> <<>>]
    ELSE IF paths.type = "list"
         THEN [value |-> join("|", paths.value), log |-> <<>>]
    ELSE IF paths.type = "NoneType"
         THEN [value |-> "",
               log |-> <<warning("get_checked_path",
                                 NAME \o " check '" \o id
                                      \o "' not found in the mapping")>>]
    ELSE [value |-> "", log |-> <<>>]

\* Scanner.get_checked_path: the str it returns and the records it logs
get_checked_path(id) == render_paths(lookup_paths(id), id)

(* ----------------------------- get_version ----------------------------- *)
\* version_line, *_ = raw_version.split("\n")
first_line(text) == Head(split(text, "\n"))

RECURSIVE tokens(_)
\* str.split() without a separator: the runs of characters that are not
\* white space
tokens(s) ==
    IF Len(s) = 0 THEN <<>>
    ELSE IF Head(s) \in {" ", "\t", "\n"} THEN tokens(Tail(s))
    ELSE LET sp == {p \in 1..Len(s) : CharAt(s, p) \in {" ", "\t", "\n"}}
             e == IF sp = {} THEN Len(s) + 1
                  ELSE CHOOSE p \in sp : \A q \in sp : p <= q
         IN  <<SubSeq(s, 1, e - 1)>> \o tokens(SubSeq(s, e, Len(s)))

\* get_version that splits the first line with version_line.split()
get_version_split_whitespace(text) ==
    LET parts == tokens(first_line(text))
    IN  IF Len(parts) = 2 THEN [exc |-> NoExc, value |-> parts[2]]
        ELSE [exc |-> ValueError, value |-> ""]

\* label, version = version_line.split(" "); return version
get_version(text) ==
    LET parts == split(first_line(text), " ")
    IN  IF Len(parts) = 2 THEN [exc |-> NoExc, value |-> parts[2]]
        ELSE [exc |-> ValueError, value |-> ""]

(* ---------------------------- parse_results ---------------------------- *)
\* result.get("Misconfigurations", [])
misconfigurations(result) ==
    IF "Misconfigurations" \in DOMAIN result
    THEN result["Misconfigurations"] ELSE <<>>

\* status_of with a comparison that ignores case
status_of_ignoring_case(misconfig) ==
    IF misconfig["Status"] \in {"FAIL", "fail"} THEN Alert ELSE Pass

\* CheckStatus.Alert if misconfig["Status"] == "FAIL" else CheckStatus.Pass
status_of(misconfig) ==
    IF misconfig["Status"] = "FAIL" THEN Alert ELSE Pass

\* the keys of misconfig the loop body subscripts after the call of
\* get_checked_path, in the order it reads them
keys_of_record == <<"ID", "Title", "Severity", "Description", "Message">>

\* the first key of keys_of_record that misconfig lacks, None if it has all
missing_key(misconfig) ==
    LET miss == {k \in 1..Len(keys_of_record) :
                    keys_of_record[k] \notin DOMAIN misconfig}
    IN  IF miss = {} THEN None
        ELSE keys_of_record[CHOOSE k \in miss : \A l \in miss : k <= l]

\* check_result that resolves the path only for a finding that alerts
check_result_path_if_alert(result, misconfig) ==
    LET obj_name == stem(result["Target"])
    IN  [check_id |-> check_id_pattern_search(obj_name),
         obj_name |-> obj_name,
         scanner_check_id |-> misconfig["ID"],
         scanner_check_name |-> misconfig["Title"],
         checked_path |-> IF status_of(misconfig) = Alert
                          THEN get_checked_path(misconfig["ID"]).value
                          ELSE "",
         severity |-> misconfig["Severity"],
         got |-> status_of(misconfig),
         details |-> misconfig["Description"],
         extra |-> misconfig["Message"]]

\* the CheckResult the loop body appends for one finding of one file
check_result(result, misconfig) ==
    LET obj_name == stem(result["Target"])
    IN  [check_id |-> check_id_pattern_search(obj_name),
         obj_name |-> obj_name,
         scanner_check_id |-> misconfig["ID"],
         scanner_check_name |-> misconfig["Title"],
         checked_path |-> get_checked_path(misconfig["ID"]).value,
         severity |-> misconfig["Severity"],
         got |-> status_of(misconfig),
         details |-> misconfig["Description"],
         extra |-> misconfig["Message"]]

\* the key whose subscript raises while one finding is processed, None if
\* the body runs to the append
raising_key(result, misconfig) ==
    IF "Target" \notin DOMAIN result THEN "Target"
    ELSE IF "Status" \notin DOMAIN misconfig THEN "Status"
    ELSE missing_key(misconfig)

\* check_results.insert(0, record) in the place of the append
list_insert_front(list, record) == <<record>> \o list

\* an append that leaves out a record whose checked_path is empty
list_append_if_mapped(list, record) ==
    IF record.checked_path = "" THEN list ELSE Append(list, record)

\* check_results.append(record), line 368
list_append(list, record) == Append(list, record)

\* lines 360-380: the body of the inner loop for one finding.  st holds the
\* list built so far, the records logged so far and the exception that
\* left the loops (NoExc while they run).  get_checked_path has run, and
\* logged, once Status and ID have been read.
loop_body(st, result, misconfig) ==
    LET key == raising_key(result, misconfig)
        logged == IF key \in {"Target", "Status", "ID"} THEN st.log
                  ELSE st.log \o get_checked_path(misconfig["ID"]).log
    IN  IF key # None
        THEN [check_results |-> st.check_results, log |-> logged,
              exc |-> KeyError(key)]
        ELSE [check_results |->
                  list_append(st.check_results,
                              check_result(result, misconfig)),
              log |-> logged, exc |-> NoExc]

RECURSIVE inner_loop(_, _, _)
\* line 359: the findings of one file from position j on
inner_loop(st, result, j) ==
    IF st.exc # NoExc \/ j > Len(misconfigurations(result)) THEN st
    ELSE inner_loop(loop_body(st, result, misconfigurations(result)[j]),
                    result, j + 1)

RECURSIVE outer_loop(_, _, _)
\* line 358: the files of results["Results"] from position i on
outer_loop(st, files, i) ==
    IF st.exc # NoExc \/ i > Len(files) THEN st
    ELSE outer_loop(inner_loop(st, files[i], 1), files, i + 1)

\* Scanner.parse_results: the list built (returned when exc is NoExc), the
\* records logged and the exception that propagated
parse_results(res) ==
    outer_loop([check_results |-> <<>>, log |-> <<>>, exc |-> NoExc],
               res["Results"], 1)

(* ------------------------------ inputs --------------------------------- *)
Targets ==
    {"KSV017-test.yaml", "deployment.yaml", "manifests/POD-001-2-host.yaml",
     "café-1.yaml"}

\* the findings the inputs are made of
Catalogue ==
    <<[ID |-> "KSV017", Title |-> "t", Status |-> "FAIL", Severity |-> "HIGH",
       Description |-> "d", Message |-> "m"],
      [ID |-> "KSV999", Title |-> "t", Status |-> "fail", Severity |-> "HIGH",
       Description |-> "d", Message |-> "m"],
      [ID |-> "KSV017", Title |-> "t2", Status |-> "PASS", Severity |-> "LOW",
       Description |-> "", Message |-> ""],
      [ID |-> "KSV012", Title |-> "t", Status |-> "", Severity |-> "HIGH",
       Description |-> "d2", Message |-> "m2"],
      [ID |-> "KSV012", Title |-> "t", Status |-> "WARN", Severity |-> "",
       Description |-> "d", Message |-> "m"],
      [ID |-> "KSV036", Title |-> "t", Status |-> "FAIL",
       Description |-> "d", Message |-> "m"]>>

\* the k findings of the catalogue from position start on, going round
Slice(start, k) ==
    [p \in 1..k |-> Catalogue[((start + p - 2) % Len(Catalogue)) + 1]]

\* a file of the input: its Target and either no Misconfigurations key
\* (count -1) or the slice of count findings that starts at start
FileShapes ==
    {[target |-> t, count |-> k, start |-> s] :
        t \in Targets, k \in -1..MaxFindings, s \in 1..Len(Catalogue)}

FileOf(shape) ==
    IF shape.count < 0 THEN [Target |-> shape.target]
    ELSE [Target |-> shape.target,
          Misconfigurations |-> Slice(shape.start, shape.count)]

RECURSIVE ShapeCount(_, _)
\* the findings of the first n files of shapes
ShapeCount(shapes, n) ==
    IF n = 0 THEN 0
    ELSE ShapeCount(shapes, n - 1)
         + (IF shapes[n].count < 0 THEN 0 ELSE shapes[n].count)

\* shapes gives an input once: a file without findings starts at 1, and
\* the files hold at most MaxFindings findings together
ProperShapes(shapes, n) ==
    /\ \A f \in 1..n : shapes[f].count <= 0 => shapes[f].start = 1
    /\ ShapeCount(shapes, n) <= MaxFindings

SampleIds == DOMAIN CHECK_MAPPING \cup {"KSV999", "KSV029", "ksv017", "Workload", ""}

VersionChars == {"V", "1", " ", "\t", "\n"}

RECURSIVE Texts(_)
\* the texts of at most n characters of VersionChars
Texts(n) ==
    IF n = 0 THEN {""}
    ELSE Texts(n - 1) \cup {s \o c : s \in Texts(n - 1), c \in VersionChars}

ExampleVersion == "Version: 0.45.0\nVulnerability DB: ..."

SampleVersions ==
    Texts(MaxVersionLen) \cup {ExampleVersion, "Version:  0.45.0", "0.45.0"}

(* ------------------------------ machine -------------------------------- *)
Init ==
    /\ mapping = CHECK_MAPPING
    /\ \/ /\ op = "parse_results"
          /\ \E n \in 0..MaxFiles : \E shapes \in [1..n -> FileShapes] :
                /\ ProperShapes(shapes, n)
                /\ results = [Results |-> [f \in 1..n |-> FileOf(shapes[f])]]
          /\ check_id_arg = "" /\ raw_version = ""
       \/ op = "get_checked_path" /\ check_id_arg \in SampleIds
          /\ results = [Results |-> <<>>] /\ raw_version = ""
       \/ op = "get_version" /\ raw_version \in SampleVersions
          /\ results = [Results |-> <<>>] /\ check_id_arg = ""
    /\ pc = "call"
    /\ check_results = <<>>
    /\ value = ""
    /\ exc = NoExc
    /\ log = <<>>

args == <<mapping, op, results, check_id_arg, raw_version>>

\* a call of Scanner.parse_results(results) that returns its list
ParseResultsReturn ==
    /\ op = "parse_results" /\ pc = "call"
    /\ parse_results(results).exc = NoExc
    /\ check_results' = parse_results(results).check_results
    /\ log' = log \o parse_results(results).log
    /\ pc' = "returned"
    /\ UNCHANGED <<args, value, exc>>

\* a call of Scanner.parse_results(results) that a KeyError leaves;
\* check_results keeps the list as it was when the exception left the loops
ParseResultsRaise ==
    /\ op = "parse_results" /\ pc = "call"
    /\ parse_results(results).exc # NoExc
    /\ check_results' = parse_results(results).check_results
    /\ log' = log \o parse_results(results).log
    /\ exc' = parse_results(results).exc
    /\ pc' = "raised"
    /\ UNCHANGED <<args, value>>

\* a call of Scanner.get_checked_path(check_id_arg)
GetCheckedPath ==
    /\ op = "get_checked_path" /\ pc = "call"
    /\ value' = get_checked_path(check_id_arg).value
    /\ log' = log \o get_checked_path(check_id_arg).log
    /\ pc' = "returned"
    /\ UNCHANGED <<args, check_results, exc>>

\* a call of Scanner.get_version() that returns
GetVersionReturn ==
    /\ op = "get_version" /\ pc = "call"
    /\ get_version(raw_version).exc = NoExc
    /\ value' = get_version(raw_version).value
    /\ pc' = "returned"
    /\ UNCHANGED <<args, check_results, exc, log>>

\* a call of Scanner.get_version() whose unpacking raises
GetVersionRaise ==
    /\ op = "get_version" /\ pc = "call"
    /\ get_version(raw_version).exc # NoExc
    /\ exc' = get_version(raw_version).exc
    /\ pc' = "raised"
    /\ UNCHANGED <<args, check_results, value, log>>

Next ==
    \/ ParseResultsReturn
    \/ ParseResultsRaise
    \/ GetCheckedPath
    \/ GetVersionReturn
    \/ GetVersionRaise

Spec == Init /\ [][Next]_vars

(* -------------------- notions the properties refer to ------------------ *)
\* the number of findings a file of the input carries
finding_count(file) ==
    IF "Misconfigurations" \in DOMAIN file
    THEN Len(file["Misconfigurations"]) ELSE 0

RECURSIVE total_findings(_)
\* the sum of the finding counts of the files
total_findings(files) ==
    IF Len(files) = 0 THEN 0
    ELSE finding_count(Head(files)) + total_findings(Tail(files))

RECURSIVE encounter(_)
\* the <<file, finding>> pairs of the input in file order, then by position
\* inside the file
encounter(files) ==
    IF Len(files) = 0 THEN <<>>
    ELSE LET f == Head(files)
         IN  [k \in 1..finding_count(f) |-> <<f, f["Misconfigurations"][k]>>]
             \o encounter(Tail(files))

FindingKeys == {"ID", "Title", "Status", "Severity", "Description", "Message"}

\* every finding of the input has the six fields of the scanner's format
well_formed(res) ==
    \A k \in 1..Len(encounter(res["Results"])) :
        FindingKeys \subseteq DOMAIN encounter(res["Results"])[k][2]

Range(seq) == {seq[k] : k \in 1..Len(seq)}

(* ------------------------------ properties ----------------------------- *)
\* C1: parse_results returns one record per finding: the length of the
\* returned list is the sum of the lengths of the Misconfigurations lists
\* (0 for a file whose list is empty or missing), whether or not the ids
\* are mapped and the file stems match; an input whose findings have all
\* their fields never raises.
C1_RecordCount ==
    op = "parse_results" =>
        /\ pc = "returned" =>
               Len(check_results) = total_findings(results["Results"])
        /\ well_formed(results) => pc # "raised"

C1_Witness ==
    /\ pc = "returned"
    /\ Len(check_results) = 3
    /\ \E f \in Range(results["Results"]) : "Misconfigurations" \notin DOMAIN f
    /\ \E k \in 1..3 : check_results[k].scanner_check_id \notin DOMAIN CHECK_MAPPING
    /\ \E k \in 1..3 : check_results[k].check_id = None

\* C2: the k-th record of the list is built from the k-th finding in
\* encounter order (file order, then position in the file): it carries that
\* finding's ID and the stem of that file's Target; the list never holds
\* more records than findings and holds all of them at the return.
C2_EncounterOrder ==
    op = "parse_results" =>
        LET e == encounter(results["Results"])
        IN  /\ Len(check_results) <= Len(e)
            /\ \A k \in 1..Len(check_results) :
                   /\ check_results[k].scanner_check_id = e[k][2]["ID"]
                   /\ check_results[k].scanner_check_name = e[k][2]["Title"]
                   /\ check_results[k].obj_name = stem(e[k][1]["Target"])
            /\ pc = "returned" => Len(check_results) = Len(e)

C2_Witness ==
    /\ pc = "returned"
    /\ Len(results["Results"]) = 2
    /\ finding_count(results["Results"][1]) = 2
    /\ finding_count(results["Results"][2]) = 1
    /\ results["Results"][1]["Target"] # results["Results"][2]["Target"]
    /\ Len(check_results) = 3
    /\ check_results[1].scanner_check_id # check_results[2].scanner_check_id
    /\ check_results[2].scanner_check_id # check_results[3].scanner_check_id

\* C4: the status of an emitted record is Alert exactly when the Status of
\* its finding is the text "FAIL", and Pass for every other text; it is
\* never a third value.
C4_BinaryStatus ==
    op = "parse_results" =>
        LET e == encounter(results["Results"])
        IN  \A k \in 1..Len(check_results) :
                /\ check_results[k].got \in {Alert, Pass}
                /\ check_results[k].got = Alert <=> e[k][2]["Status"] = "FAIL"

C4_Witness ==
    /\ pc = "returned"
    /\ Len(check_results) = 3
    /\ LET e == encounter(results["Results"])
       IN  /\ e[1][2]["Status"] = "FAIL" /\ check_results[1].got = Alert
           /\ e[2][2]["Status"] = "fail" /\ check_results[2].got = Pass
           /\ e[3][2]["Status"] = "" /\ check_results[3].got = Pass

\* the input of the end-to-end example
EndToEndInput ==
    [Results |-> <<[Target |-> "KSV017-test.yaml",
                    Misconfigurations |->
                        <<[ID |-> "KSV017", Title |-> "t", Status |-> "FAIL",
                           Severity |-> "HIGH", Description |-> "d",
                           Message |-> "m"]>>]>>]

\* C3 as stated: the record of the end-to-end example has check_id "KSV017"
\* (object name "KSV017-test"), status Alert and the paths of "KSV017".
C3_AsStated ==
    (op = "parse_results" /\ pc = "returned" /\ results = EndToEndInput) =>
        /\ Len(check_results) = 1
        /\ check_results[1].check_id = "KSV017"
        /\ check_results[1].obj_name = "KSV017-test"
        /\ check_results[1].got = Alert
        /\ check_results[1].checked_path =
               ".spec.containers[].securityContext.privileged"

\* C3 (amended): object names "KSV017-test" and "deployment" have no
\* "-<digits>" group after their leading word run and give an absent check
\* id, while "POD-001-2-host" gives "POD-001-2"; the end-to-end example
\* yields exactly one record, with check_id absent, obj_name "KSV017-test",
\* status Alert and the paths of "KSV017".
C3_Extraction ==
    op = "parse_results" =>
        /\ \A k \in 1..Len(check_results) :
               /\ check_results[k].obj_name = "KSV017-test"
                      => check_results[k].check_id = None
               /\ check_results[k].obj_name = "deployment"
                      => check_results[k].check_id = None
               /\ check_results[k].obj_name = "POD-001-2-host"
                      => check_results[k].check_id = "POD-001-2"
        /\ (pc = "returned" /\ results = EndToEndInput) =>
               check_results =
                   <<[check_id |-> None,
                      obj_name |-> "KSV017-test",
                      scanner_check_id |-> "KSV017",
                      scanner_check_name |-> "t",
                      checked_path |->
                          ".spec.containers[].securityContext.privileged",
                      severity |-> "HIGH",
                      got |-> Alert,
                      details |-> "d",
                      extra |-> "m"]>>

C3_Witness ==
    /\ pc = "returned"
    /\ results = EndToEndInput
    /\ Len(check_results) = 1

\* C5: for an id of CHECK_MAPPING whose paths are a list, get_checked_path
\* returns the paths joined by "|" in declared order (cutting the result at
\* every "|" gives the list back; one path comes back as it is) and logs
\* nothing; paths stored as one str come back unchanged; the result is
\* never the category of the entry.
C5_JoinedPaths ==
    /\ (op = "get_checked_path" /\ pc = "returned"
            /\ check_id_arg \in DOMAIN CHECK_MAPPING) =>
           LET entry == CHECK_MAPPING[check_id_arg]
           IN  /\ entry[2].type = "list" =>
                      /\ split(value, "|") = entry[2].value
                      /\ Len(entry[2].value) = 1 => value = entry[2].value[1]
               /\ entry[2].type = "str" => value = entry[2].value
               /\ value # entry[1]
               /\ log = <<>>
    /\ render_paths(List(<<"a", "b">>), "X").value = "a|b"
    /\ \A p \in {"", "a", ".spec.hostPID", "a|b"} :
           render_paths(Str(p), "X") = [value |-> p, log |-> <<>>]

C5_Witness ==
    /\ op = "get_checked_path"
    /\ pc = "returned"
    /\ check_id_arg = "KSV012"
    /\ value = ".spec.securityContext.runAsNonRoot"
                   \o "|.spec.containers[].securityContext.runAsNonRoot"

\* the positions of the emitted records whose id is not in CHECK_MAPPING
unmapped_records ==
    {k \in 1..Len(check_results) :
        check_results[k].scanner_check_id \notin DOMAIN CHECK_MAPPING}

\* the finding parse_results was processing when it raised lacks a field
raised_on_missing_key ==
    LET e == encounter(results["Results"])
    IN  /\ Len(check_results) < Len(e)
        /\ ~(FindingKeys \subseteq DOMAIN e[Len(check_results) + 1][2])

\* C6: for an id that is not in CHECK_MAPPING get_checked_path returns ""
\* and logs exactly one warning, and it never raises; parse_results emits
\* the finding of such an id with checked_path "", logs one warning for
\* each, and goes on to the findings after it (it raises only at a finding
\* that lacks a field).
C6_UnmappedId ==
    /\ op = "get_checked_path" =>
           /\ pc # "raised"
           /\ (pc = "returned" /\ check_id_arg \notin DOMAIN CHECK_MAPPING) =>
                  /\ value = ""
                  /\ Len(log) = 1
                  /\ log[1].level = "WARNING"
    /\ op = "parse_results" =>
           LET e == encounter(results["Results"])
           IN  /\ \A k \in 1..Len(check_results) :
                      e[k][2]["ID"] \notin DOMAIN CHECK_MAPPING =>
                          /\ check_results[k].scanner_check_id = e[k][2]["ID"]
                          /\ check_results[k].checked_path = ""
               /\ pc = "returned" => Len(check_results) = Len(e)
               /\ pc = "raised" => raised_on_missing_key
               /\ pc # "raised" => Len(log) = Cardinality(unmapped_records)

C6_Witness ==
    /\ op = "parse_results"
    /\ pc = "returned"
    /\ Len(check_results) = 3
    /\ check_results[1].scanner_check_id = "KSV999"
    /\ check_results[1].checked_path = ""
    /\ check_results[2].checked_path # ""
    /\ Len(log) = 1

\* the text of raw_version before its first line feed
line_before_feed(text) ==
    IF find(text, "\n", 1) = 0 THEN text
    ELSE SubSeq(text, 1, find(text, "\n", 1) - 1)

\* the positions of the character c in s
positions(s, c) == {p \in 1..Len(s) : CharAt(s, p) = c}

\* C7 as stated: get_version returns the second token when the first line
\* has exactly two tokens delimited by white space, and raises otherwise.
C7_AsStated ==
    op = "get_version" =>
        LET t == tokens(line_before_feed(raw_version))
        IN  /\ pc = "returned" => (Len(t) = 2 /\ value = t[2])
            /\ pc = "raised" => Len(t) # 2

\* C7 (amended): get_version looks only at the text before the first line
\* feed; when that line holds exactly one space character it returns the
\* text after the space ("Version: 0.45.0\n..." gives "0.45.0"), and when
\* the line holds no space or more than one a ValueError propagates and
\* nothing is returned.
C7_ExactlyOneSpace ==
    op = "get_version" =>
        LET line == line_before_feed(raw_version)
            sp == positions(line, " ")
        IN  /\ pc = "returned" =>
                   /\ Cardinality(sp) = 1
                   /\ \A p \in sp : value = SubSeq(line, p + 1, Len(line))
                   /\ exc = NoExc
            /\ pc = "raised" =>
                   /\ Cardinality(sp) # 1
                   /\ exc = ValueError
                   /\ value = ""
            /\ (raw_version = ExampleVersion /\ pc # "call") =>
                   (pc = "returned" /\ value = "0.45.0")

C7_Witness ==
    /\ op = "get_version"
    /\ pc = "returned"
    /\ raw_version = ExampleVersion
    /\ value = "0.45.0"

\* C8 as stated: parse_results raises only at a finding that lacks its ID
\* or its Status; a finding without Severity, Description or Message still
\* gives its record and the findings after it are processed.
C8_AsStated ==
    op = "parse_results" =>
        LET e == encounter(results["Results"])
        IN  /\ pc = "raised" =>
                   /\ Len(check_results) < Len(e)
                   /\ ~({"ID", "Status"} \subseteq
                            DOMAIN e[Len(check_results) + 1][2])
            /\ (pc = "returned"
                    /\ \A k \in 1..Len(e) :
                           {"ID", "Status"} \subseteq DOMAIN e[k][2]) =>
                   Len(check_results) = Len(e)

\* C9: checked_path depends on scanner_check_id alone: two emitted records
\* with the same id have the same checked_path, which is the one
\* get_checked_path gives for that id, and CHECK_MAPPING is never modified.
C9_PathDependsOnIdOnly ==
    /\ mapping = CHECK_MAPPING
    /\ \A k, l \in 1..Len(check_results) :
           check_results[k].scanner_check_id = check_results[l].scanner_check_id
               => check_results[k].checked_path = check_results[l].checked_path
    /\ \A k \in 1..Len(check_results) :
           check_results[k].checked_path =
               get_checked_path(check_results[k].scanner_check_id).value

C9_Witness ==
    /\ pc = "returned"
    /\ Len(check_results) = 3
    /\ check_results[1].scanner_check_id = check_results[3].scanner_check_id
    /\ check_results[1].obj_name # check_results[3].obj_name
    /\ check_results[1].got # check_results[3].got
    /\ check_results[1].severity # check_results[3].severity
    /\ check_results[1].checked_path # ""

\* C10: when the stem of a file's Target does not match the pattern, the
\* record is emitted with check_id absent and parse_results logs a warning
\* for the unresolved identifier.  Line 363 sets check_id to None without a
\* logger call, so a mapped finding of such a file leaves the log empty.
C10_AsStated ==
    (op = "parse_results"
        /\ \E k \in 1..Len(check_results) : check_results[k].check_id = None)
    => \E l \in 1..Len(log) : log[l].function = "parse_results"
====
